---- MODULE Spec2Model ----
(***************************************************************************)
(* A model of astar.Search (src/astar.go): the priority queue `states`     *)
(* driven by container/heap, the queuedLinks / explored / transitions maps *)
(* and the main loop.  Costs and estimates are float64 in the source; the  *)
(* model uses integers, on which float64 arithmetic is exact.              *)
(***************************************************************************)
EXTENDS Integers, Sequences, FiniteSets, TLC

VARIABLES
    p,            \* the policy (astar.Interface implementation), fixed per run
    curr,         \* the policy's cursor, set by Move()
    q,            \* the priority queue: a slice of *state (handles into obj)
    obj,          \* the allocated state structs, by handle
    queuedLinks,  \* map id -> *state of states on the frontier
    explored,     \* map id -> bool, kept as the set of keys mapped to true
    transitions,  \* map id -> predecessor id
    steps,        \* ids in the order they were explored
    current,      \* the *state popped by the running loop iteration
    succs,        \* what is left of the slice ranged over by the scan
    pc,           \* "loop", "scan" or "done"
    path,         \* returned path (<<>> is nil)
    err,          \* returned error: "nil" or "ErrNotFound"
    succCalls,    \* observation: cursor positions at which Successors() ran
    moveCalls,    \* observation: the arguments of the Move() calls, in order
    call2         \* a second Search call running at the same time, if any

\* The variables of the first call.
callVars == <<p, curr, q, obj, queuedLinks, explored, transitions, steps,
              current, succs, pc, path, err, succCalls, moveCalls>>

vars == <<p, curr, q, obj, queuedLinks, explored, transitions, steps,
          current, succs, pc, path, err, succCalls, moveCalls, call2>>

(***************************************************************************)
(* Bounds of the input families.                                           *)
(***************************************************************************)
MaxEdges == 3
MaxNegCost == 1
MaxCost == 1
MaxEst == 1
MaxRim == 1
Window == 75
MaxCells == 6
MaxWeight == 1

----------------------------------------------------------------------------
(* Go maps as functions with a finite domain.                              *)

EmptyMap == [x \in {} |-> x]

Put(m, k, v) == [x \in (DOMAIN m) \cup {k} |-> IF x = k THEN v ELSE m[x]]

Delete(m, k) == [x \in (DOMAIN m) \ {k} |-> m[x]]

\* Go's integer division truncates toward zero.
GoDiv(a, b) == IF a >= 0 THEN a \div b ELSE 0 - ((0 - a) \div b)

----------------------------------------------------------------------------
(* The policy: astar.Interface.                                            *)

PStart(pol) == pol.start

PFinish(pol, cursor) == cursor \in pol.finish

PSuccessors(pol, cursor) == pol.succ[cursor]

\* graph.Cost: a lookup in a map of maps, 0 for a missing key.
PCost(pol, cursor, given) ==
    IF <<cursor, given>> \in DOMAIN pol.cost THEN pol.cost[<<cursor, given>>] ELSE 0

PEstimate(pol, given) == pol.est[given]

PNodes(pol) == DOMAIN pol.succ

----------------------------------------------------------------------------
(* type states []*state, with the methods container/heap calls.            *)
(* A heap value h is [q |-> slice of handles, obj |-> structs by handle];  *)
(* indices are Go's (from 0).                                              *)

At(h, n) == h.obj[h.q[n + 1]]

Len0(h) == Len(h.q)

\* Less with the comparison turned round.
LessReversed(h, n, j) == At(h, n).cost + At(h, n).estimate > At(h, j).cost + At(h, j).estimate

Less(h, n, j) == At(h, n).cost + At(h, n).estimate < At(h, j).cost + At(h, j).estimate

\* Swap that exchanges the elements and leaves their index fields alone.
SwapNoIndex(h, n, j) ==
    [q |-> [h.q EXCEPT ![n + 1] = h.q[j + 1], ![j + 1] = h.q[n + 1]], obj |-> h.obj]

Swap(h, n, j) ==
    LET a == h.q[n + 1]
        b == h.q[j + 1]
        q1 == [h.q EXCEPT ![n + 1] = b, ![j + 1] = a]
        o1 == [h.obj EXCEPT ![q1[n + 1]].index = n]
        o2 == [o1 EXCEPT ![q1[j + 1]].index = j]
    IN  [q |-> q1, obj |-> o2]

\* (*states).Push: sets item.index and appends.
PushItem(h, x) ==
    [q |-> Append(h.q, x), obj |-> [h.obj EXCEPT ![x].index = Len(h.q)]]

\* (*states).Pop: cuts the last element off and returns it.
PopItem(h) ==
    [q |-> SubSeq(h.q, 1, Len(h.q) - 1), obj |-> h.obj, x |-> h.q[Len(h.q)]]

RECURSIVE up(_, _)
up(h, j) ==
    LET i == GoDiv(j - 1, 2)
    IN  IF i = j \/ ~Less(h, j, i) THEN h ELSE up(Swap(h, i, j), i)

\* down returns the heap and the index the element came to rest at.  Between
\* two children of equal key it takes the left one (j2 is taken only when
\* Less(j2, j1)), as container/heap does in current Go releases.
RECURSIVE down(_, _, _)
down(h, i, n) ==
    LET j1 == 2 * i + 1
        j2 == j1 + 1
        j == IF j2 < n /\ Less(h, j2, j1) THEN j2 ELSE j1
    IN  IF j1 >= n \/ j1 < 0 THEN [h |-> h, i |-> i]
        ELSE IF ~Less(h, j, i) THEN [h |-> h, i |-> i]
        ELSE down(Swap(h, i, j), j, n)

RECURSIVE heapInitFrom(_, _)
heapInitFrom(h, i) ==
    IF i < 0 THEN h ELSE heapInitFrom(down(h, i, Len0(h)).h, i - 1)

heapInit(h) == heapInitFrom(h, GoDiv(Len0(h), 2) - 1)

heapPush(h, x) ==
    LET h1 == PushItem(h, x) IN up(h1, Len0(h1) - 1)

heapPop(h) ==
    LET n == Len0(h) - 1
        h1 == Swap(h, 0, n)
        h2 == down(h1, 0, n).h
    IN  PopItem(h2)

\* heapFix that only sifts down.
heapFixDownOnly(h, i) == down(h, i, Len0(h)).h

heapFix(h, i) ==
    LET d == down(h, i, Len0(h))
    IN  IF ~(d.i > i) THEN up(d.h, i) ELSE d.h

----------------------------------------------------------------------------
(* Search.  St is the state of one call; the operators below are the       *)
(* pieces of the function body, each from a Search state to the next.      *)

St ==
    [p |-> p, curr |-> curr, q |-> q, obj |-> obj, queuedLinks |-> queuedLinks,
     explored |-> explored, transitions |-> transitions, steps |-> steps,
     current |-> current, succs |-> succs, pc |-> pc, path |-> path, err |-> err,
     succCalls |-> succCalls, moveCalls |-> moveCalls]

NewState(id, cost, estimate) ==
    [id |-> id, cost |-> cost, estimate |-> estimate, index |-> 0]

\* Lines 133-149: the state of the call when the loop is first reached.
SearchInit(pol) ==
    LET o == <<NewState(PStart(pol), 0, PEstimate(pol, PStart(pol)))>>
        h == heapInit([q |-> <<1>>, obj |-> o])
    IN  [p |-> pol, curr |-> PStart(pol), q |-> h.q, obj |-> h.obj,
         queuedLinks |-> EmptyMap, explored |-> {}, transitions |-> EmptyMap,
         steps |-> <<>>, current |-> 0, succs |-> <<>>, pc |-> "loop",
         path |-> <<>>, err |-> "nil", succCalls |-> <<>>,
         moveCalls |-> <<PStart(pol)>>]

\* PopCurrent without the call of Move (line 159).
PopCurrentNoMove(s) ==
    LET h == heapPop([q |-> s.q, obj |-> s.obj])
        id == h.obj[h.x].id
    IN  [s EXCEPT !.q = h.q, !.obj = h.obj, !.current = h.x,
                  !.queuedLinks = Delete(@, id),
                  !.explored = @ \cup {id},
                  !.steps = Append(@, id)]

\* Lines 154-161: pop the minimum, mark it explored, move the cursor to it.
PopCurrent(s) ==
    LET h == heapPop([q |-> s.q, obj |-> s.obj])
        id == h.obj[h.x].id
    IN  [s EXCEPT !.q = h.q, !.obj = h.obj, !.current = h.x,
                  !.queuedLinks = Delete(@, id),
                  !.explored = @ \cup {id},
                  !.curr = id,
                  !.moveCalls = Append(@, id),
                  !.steps = Append(@, id)]

\* Reconstruct with the walk ending one state early.
RECURSIVE ReconstructShort(_, _, _)
ReconstructShort(trans, id, acc) ==
    IF id \notin DOMAIN trans \/ trans[id] \notin DOMAIN trans THEN [path |-> acc, id |-> id]
    ELSE ReconstructShort(trans, trans[id], <<trans[id]>> \o acc)

\* Lines 166-178: walk transitions back from current.id, prepending.
RECURSIVE Reconstruct(_, _, _)
Reconstruct(trans, id, acc) ==
    IF id \notin DOMAIN trans THEN [path |-> acc, id |-> id]
    ELSE Reconstruct(trans, trans[id], <<trans[id]>> \o acc)

\* ReturnPath with the path started empty instead of at current.id.
ReturnPathNoLast(s) ==
    LET id == s.obj[s.current].id
        r == Reconstruct(s.transitions, id, <<>>)
    IN  [s EXCEPT !.obj[s.current].id = r.id, !.path = r.path,
                  !.err = "nil", !.pc = "done"]

\* Lines 164-180: the cursor is final; return the path.
ReturnPath(s) ==
    LET id == s.obj[s.current].id
        r == Reconstruct(s.transitions, id, <<id>>)
    IN  [s EXCEPT !.obj[s.current].id = r.id, !.path = r.path,
                  !.err = "nil", !.pc = "done"]

\* Line 182: the range expression is evaluated once.
BeginScan(s) ==
    [s EXCEPT !.succs = PSuccessors(s.p, s.curr),
              !.succCalls = Append(@, s.curr),
              !.pc = "scan"]

\* Relax with <= for <.
RelaxOrEqual(s, succ, cost) ==
    LET queuedState == s.queuedLinks[succ]
    IN  IF cost <= s.obj[queuedState].cost
        THEN LET o1 == [s.obj EXCEPT ![queuedState].cost = cost]
                 h == heapFix([q |-> s.q, obj |-> o1], o1[queuedState].index)
             IN  [s EXCEPT !.q = h.q, !.obj = h.obj,
                           !.transitions = Put(@, succ, s.obj[s.current].id)]
        ELSE s

\* Relax that never lowers a recorded cost.
RelaxNever(s, succ, cost) == s

\* Relax that pushes a second struct for the successor, with its estimate
\* evaluated again, instead of updating the queued one.
RelaxByPush(s, succ, cost) ==
    LET queuedState == s.queuedLinks[succ]
        x == Len(s.obj) + 1
        o1 == Append(s.obj, NewState(succ, cost, PEstimate(s.p, succ)))
        h == heapPush([q |-> s.q, obj |-> o1], x)
    IN  IF cost < s.obj[queuedState].cost
        THEN [s EXCEPT !.q = h.q, !.obj = h.obj,
                       !.queuedLinks = Put(@, succ, x),
                       !.transitions = Put(@, succ, s.obj[s.current].id)]
        ELSE s

\* Relax without the update of transitions (line 198).
RelaxKeepPredecessor(s, succ, cost) ==
    LET queuedState == s.queuedLinks[succ]
    IN  IF cost < s.obj[queuedState].cost
        THEN LET o1 == [s.obj EXCEPT ![queuedState].cost = cost]
                 h == heapFix([q |-> s.q, obj |-> o1], o1[queuedState].index)
             IN  [s EXCEPT !.q = h.q, !.obj = h.obj]
        ELSE s

\* Lines 195-198: the successor is on the frontier.
Relax(s, succ, cost) ==
    LET queuedState == s.queuedLinks[succ]
    IN  IF cost < s.obj[queuedState].cost
        THEN LET o1 == [s.obj EXCEPT ![queuedState].cost = cost]
                 h == heapFix([q |-> s.q, obj |-> o1], o1[queuedState].index)
             IN  [s EXCEPT !.q = h.q, !.obj = h.obj,
                           !.transitions = Put(@, succ, s.obj[s.current].id)]
        ELSE s

\* Insert without the queuedLinks entry.
InsertNoLink(s, succ, cost) ==
    LET x == Len(s.obj) + 1
        o1 == Append(s.obj, NewState(succ, cost, PEstimate(s.p, succ)))
        h == heapPush([q |-> s.q, obj |-> o1], x)
    IN  [s EXCEPT !.q = h.q, !.obj = h.obj,
                  !.transitions = Put(@, succ, s.obj[s.current].id)]

\* Insert without the heap.Push.
InsertNoPush(s, succ, cost) ==
    LET x == Len(s.obj) + 1
        o1 == Append(s.obj, NewState(succ, cost, PEstimate(s.p, succ)))
    IN  [s EXCEPT !.obj = o1,
                  !.queuedLinks = Put(@, succ, x),
                  !.transitions = Put(@, succ, s.obj[s.current].id)]

\* Insert with the estimate left at 0.
InsertNoEstimate(s, succ, cost) ==
    LET x == Len(s.obj) + 1
        o1 == Append(s.obj, NewState(succ, cost, 0))
        h == heapPush([q |-> s.q, obj |-> o1], x)
    IN  [s EXCEPT !.q = h.q, !.obj = h.obj,
                  !.queuedLinks = Put(@, succ, x),
                  !.transitions = Put(@, succ, s.obj[s.current].id)]

\* Lines 201-208: the successor is new.
Insert(s, succ, cost) ==
    LET x == Len(s.obj) + 1
        o1 == Append(s.obj, NewState(succ, cost, PEstimate(s.p, succ)))
        h == heapPush([q |-> s.q, obj |-> o1], x)
    IN  [s EXCEPT !.q = h.q, !.obj = h.obj,
                  !.queuedLinks = Put(@, succ, x),
                  !.transitions = Put(@, succ, s.obj[s.current].id)]

\* ScanOne without the explored check.
ScanOneReexplore(s) ==
    LET succ == Head(s.succs)
        cost == s.obj[s.current].cost + PCost(s.p, s.curr, succ)
        s1 == [s EXCEPT !.succs = Tail(@)]
    IN  IF succ \in DOMAIN s.queuedLinks THEN Relax(s1, succ, cost)
        ELSE Insert(s1, succ, cost)

\* ScanOne leaving the scan at an explored successor instead of skipping it.
ScanOneBreak(s) ==
    LET succ == Head(s.succs)
        cost == s.obj[s.current].cost + PCost(s.p, s.curr, succ)
        s1 == [s EXCEPT !.succs = Tail(@)]
    IN  IF succ \in s.explored THEN [s EXCEPT !.succs = <<>>]
        ELSE IF succ \in DOMAIN s.queuedLinks THEN Relax(s1, succ, cost)
        ELSE Insert(s1, succ, cost)

\* Lines 182-210: one iteration of the scan.
ScanOne(s) ==
    LET succ == Head(s.succs)
        cost == s.obj[s.current].cost + PCost(s.p, s.curr, succ)
        s1 == [s EXCEPT !.succs = Tail(@)]
    IN  IF succ \in s.explored THEN s1
        ELSE IF succ \in DOMAIN s.queuedLinks THEN Relax(s1, succ, cost)
        ELSE Insert(s1, succ, cost)

\* ReturnNotFound with the explored list dropped.
ReturnNotFoundNoSteps(s) ==
    [s EXCEPT !.path = <<>>, !.steps = <<>>, !.err = "ErrNotFound", !.pc = "done"]

\* Line 213.
ReturnNotFound(s) ==
    [s EXCEPT !.path = <<>>, !.err = "ErrNotFound", !.pc = "done"]

\* Lines 152-213: the step the loop takes from s, and the call run to its
\* return.
SearchStep(s) ==
    IF s.pc = "loop"
    THEN IF s.q = <<>> THEN ReturnNotFound(s)
         ELSE LET s1 == PopCurrent(s)
              IN  IF PFinish(s1.p, s1.curr) THEN ReturnPath(s1) ELSE BeginScan(s1)
    ELSE IF s.succs = <<>> THEN [s EXCEPT !.pc = "loop"]
         ELSE ScanOne(s)

RECURSIVE Run(_)
Run(s) == IF s.pc = "done" THEN s ELSE Run(SearchStep(s))

Search(pol) ==
    LET s == Run(SearchInit(pol)) IN [path |-> s.path, steps |-> s.steps, err |-> s.err]

\* SearchAgain with the explored map kept from the call before.
SearchAgainKeepExplored(s) == [SearchInit(s.p) EXCEPT !.explored = s.explored]

\* Lines 130-149 entered again after a call that ended in s: the policy is
\* the only value the calls share; q, queuedLinks, explored, transitions and
\* steps are locals built anew, and Move(Start()) resets the cursor.
SearchAgain(s) == SearchInit(s.p)

SetState(s) ==
    /\ p' = s.p
    /\ curr' = s.curr
    /\ q' = s.q
    /\ obj' = s.obj
    /\ queuedLinks' = s.queuedLinks
    /\ explored' = s.explored
    /\ transitions' = s.transitions
    /\ steps' = s.steps
    /\ current' = s.current
    /\ succs' = s.succs
    /\ pc' = s.pc
    /\ path' = s.path
    /\ err' = s.err
    /\ succCalls' = s.succCalls
    /\ moveCalls' = s.moveCalls
    /\ call2' = call2    \* a step of one call leaves the other call as it is

\* The call starts: every variable takes its value from SearchInit.
InitCall(pol) ==
    LET s == SearchInit(pol)
    IN  /\ p = s.p
        /\ curr = s.curr
        /\ q = s.q
        /\ obj = s.obj
        /\ queuedLinks = s.queuedLinks
        /\ explored = s.explored
        /\ transitions = s.transitions
        /\ steps = s.steps
        /\ current = s.current
        /\ succs = s.succs
        /\ pc = s.pc
        /\ path = s.path
        /\ err = s.err
        /\ succCalls = s.succCalls
        /\ moveCalls = s.moveCalls

\* No second call.
NoCall == [pc |-> "none"]

\* One call of Search, alone.
InitWith(pol) == InitCall(pol) /\ call2 = NoCall

----------------------------------------------------------------------------
(* Actions: the steps of the loop at line 152.  Each binds the state it     *)
(* computes once (\E over a singleton) and assigns it.                      *)

PopFinish ==
    /\ pc = "loop"
    /\ q # <<>>
    /\ \E s1 \in {PopCurrent(St)} :
          /\ PFinish(p, s1.curr)
          /\ \E s2 \in {ReturnPath(s1)} : SetState(s2)

\* PopExpand without the test of Finish() (line 164).
PopExpandAtGoal ==
    /\ pc = "loop"
    /\ q # <<>>
    /\ \E s1 \in {PopCurrent(St)} :
          \E s2 \in {BeginScan(s1)} : SetState(s2)

PopExpand ==
    /\ pc = "loop"
    /\ q # <<>>
    /\ \E s1 \in {PopCurrent(St)} :
          /\ ~PFinish(p, s1.curr)
          /\ \E s2 \in {BeginScan(s1)} : SetState(s2)

ScanSucc ==
    /\ pc = "scan"
    /\ succs # <<>>
    /\ \E s1 \in {ScanOne(St)} : SetState(s1)

EndScan ==
    /\ pc = "scan"
    /\ succs = <<>>
    /\ SetState([St EXCEPT !.pc = "loop"])

NotFound ==
    /\ pc = "loop"
    /\ q = <<>>
    /\ SetState(ReturnNotFound(St))

Next == PopFinish \/ PopExpand \/ ScanSucc \/ EndScan \/ NotFound

----------------------------------------------------------------------------
(* Input families.                                                         *)

\* The states of the small graphs, named as in the test graphs.
GenNodes == {"A", "B", "C"}

CostVals == 0..MaxCost

SignedCostVals == (0 - MaxNegCost)..MaxCost

EstVals == 0..MaxEst

PermSeqs(S) ==
    {f \in [1..Cardinality(S) -> S] : \A i, j \in 1..Cardinality(S) : f[i] = f[j] => i = j}

Targets(E, n) == {e[2] : e \in {x \in E : x[1] = n}}

\* Every way Successors() can list the targets of each state's edges.
RECURSIVE AllOrders(_, _)
AllOrders(ns, E) ==
    IF ns = {} THEN {EmptyMap}
    ELSE LET n == CHOOSE x \in ns : TRUE
         IN  {Put(f, n, o) : f \in AllOrders(ns \ {n}, E), o \in PermSeqs(Targets(E, n))}

\* Graphs of at most MaxEdges edges between different states of GenNodes.
GenEdges ==
    {E \in SUBSET {e \in GenNodes \X GenNodes : e[1] # e[2]} : Cardinality(E) <= MaxEdges}

\* The same with self-loops allowed.
LoopEdges == {E \in SUBSET (GenNodes \X GenNodes) : Cardinality(E) <= MaxEdges}

MkPolicy(start, finish, succ, cost, est) ==
    [start |-> start, finish |-> finish, succ |-> succ, cost |-> cost, est |-> est]

\* Any graph of GenEdges, any successor order, non-negative costs, any
\* estimates; no final state, a final start state, one or two final states.
Init ==
    \E E \in GenEdges :
      \E succ \in AllOrders(GenNodes, E) :
        \E cost \in [E -> CostVals] :
          \E est \in [GenNodes -> EstVals] :
            \E finish \in {{}, {"A"}, {"C"}, {"B", "C"}} :
              InitWith(MkPolicy("A", finish, succ, cost, est))

Spec == Init /\ [][Next]_vars

\* Graphs with self-loops, under the constant estimate of the tests.
InitLoop ==
    \E E \in LoopEdges :
      \E succ \in AllOrders(GenNodes, E) :
        \E cost \in [E -> CostVals] :
          \E finish \in {{}, {"A"}, {"C"}} :
            InitWith(MkPolicy("A", finish, succ, cost, [n \in GenNodes |-> 1]))

SpecLoop == InitLoop /\ [][Next]_vars

\* The cycle A -> B -> C -> A with the chord A -> C: every cost on the cycle
\* possibly negative (the chord costs 0), both successor orders at A, any
\* estimate for B, C final or not.
CycleEdges == {<<"A", "B">>, <<"B", "C">>, <<"C", "A">>}

ChordEdges == {<<"A", "C">>}

InitNeg ==
    \E succ \in AllOrders(GenNodes, CycleEdges \cup ChordEdges) :
      \E cost \in [CycleEdges -> SignedCostVals] :
        \E estB \in EstVals :
          \E finish \in {{}, {"C"}} :
            InitWith(MkPolicy("A", finish, succ,
                              [e \in CycleEdges \cup ChordEdges |->
                                  IF e \in CycleEdges THEN cost[e] ELSE 0],
                              [n \in GenNodes |-> IF n = "B" THEN estB ELSE 0]))

\* Search runs on the calling goroutine without suspension points: a step
\* that is enabled is eventually taken.
FairSpec == InitNeg /\ [][Next]_vars /\ WF_vars(Next)

\* Undirected weighted graphs on four states, in the shapes of the test
\* graphs "prefer longer" and "directly connected" and a triangle that leaves
\* D unreachable: every cost, every successor order, every estimate that is
\* 0 on the final state D.
OptNodes == {"A", "B", "C", "D"}

Topologies ==
    { {{"A", "B"}, {"A", "C"}, {"B", "C"}, {"C", "D"}},
      {{"A", "B"}, {"B", "C"}, {"C", "D"}, {"D", "A"}},
      {{"A", "B"}, {"A", "C"}, {"B", "C"}} }

Sym(T) == {e \in OptNodes \X OptNodes : {e[1], e[2]} \in T}

SymCost(T, w) == [e \in Sym(T) |-> w[{e[1], e[2]}]]

InitOpt ==
    \E T \in Topologies :
      \E w \in [T -> CostVals] :
        \E succ \in AllOrders(OptNodes, Sym(T)) :
          \E est \in [OptNodes \ {"D"} -> EstVals] :
            InitWith(MkPolicy("A", {"D"}, succ, SymCost(T, w), Put(est, "D", 0)))

SpecOpt == InitOpt /\ [][Next]_vars

\* A start state with an edge to each of B, C and D and at most MaxRim more
\* edges among these three: every cost, every successor order, any estimate
\* for B, D final or not.  The frontier holds up to three entries, so that
\* heap.Fix has entries to move an updated one past.
StarEdges == {<<"A", "B">>, <<"A", "C">>, <<"A", "D">>}

RimEdges ==
    {E \in SUBSET {e \in (OptNodes \ {"A"}) \X (OptNodes \ {"A"}) : e[1] # e[2]} :
        Cardinality(E) <= MaxRim}

InitHeap ==
    \E R \in RimEdges :
      \E succ \in AllOrders(OptNodes, StarEdges \cup R) :
        \E cost \in [StarEdges \cup R -> CostVals] :
          \E estB \in EstVals :
            \E finish \in {{}, {"D"}} :
              InitWith(MkPolicy("A", finish, succ, cost,
                                [n \in OptNodes |-> IF n = "B" THEN estB ELSE 0]))

SpecHeap == InitHeap /\ [][Next]_vars

\* Directed graphs of at most MaxEdges edges on four states in which
\* every move costs the same positive amount and every state has the same
\* estimate: every successor order, D final or not.
WideEdges ==
    {E \in SUBSET {e \in OptNodes \X OptNodes : e[1] # e[2]} : Cardinality(E) <= MaxEdges}

InitConst ==
    \E E \in WideEdges :
      \E succ \in AllOrders(OptNodes, E) :
        \E c \in 1..MaxCost :
          \E e \in EstVals :
            \E finish \in {{}, {"D"}} :
              InitWith(MkPolicy("A", finish, succ, [x \in E |-> c], [n \in OptNodes |-> e]))

SpecConst == InitConst /\ [][Next]_vars

\* Graphs of at most MaxEdges edges on four states, none leading back to
\* the start state, in which every move costs the same amount (0 included)
\* and the estimates of B, C and D vary: every successor order, D final or
\* not.
AwayEdges ==
    {E \in SUBSET {e \in OptNodes \X (OptNodes \ {"A"}) : e[1] # e[2]} :
        Cardinality(E) <= MaxEdges}

InitGreedy ==
    \E E \in AwayEdges :
      \E succ \in AllOrders(OptNodes, E) :
        \E c \in 0..(MaxCost + 1) :
          \E est \in [OptNodes \ {"A"} -> EstVals] :
            \E finish \in {{}, {"D"}} :
              InitWith(MkPolicy("A", finish, succ, [x \in E |-> c], Put(est, "A", 0)))

SpecGreedy == InitGreedy /\ [][Next]_vars

\* The graphs of TestTrivial and BasicTests, with the Start and Finish each
\* test sets and the path it expects.  Estimate is the constant 1.
Directed(tr) == [e \in {<<t[1], t[2]>> : t \in tr} |->
                    (CHOOSE t \in tr : <<t[1], t[2]>> = e)[3]]

Undirected(tr) == Directed(tr \cup {<<t[2], t[1], t[3]>> : t \in tr})

TestCase(name, start, finish, cost, out) ==
    [name |-> name, start |-> start, finish |-> finish, cost |-> cost, out |-> out]

EqualCostSquare ==
    TestCase("directly connected, equal cost", "A", "D",
             Undirected({<<"A", "B", 1>>, <<"B", "C", 1>>, <<"C", "D", 1>>, <<"A", "D", 3>>}),
             <<"A", "D">>)

TestCases ==
    { TestCase("empty setup", "A", "A", EmptyMap, <<"A">>),
      TestCase("no start", "", "A", EmptyMap, <<>>),
      TestCase("same successor", "A", "A", Directed({<<"A", "A", 1>>}), <<"A">>),
      TestCase("unreachable finish", "A", "B", Directed({<<"A", "A", 1>>}), <<>>),
      TestCase("trivial", "A", "B", Directed({<<"A", "B", 1>>}), <<"A", "B">>),
      TestCase("prefer longer", "A", "D",
               Undirected({<<"A", "C", 3>>, <<"A", "B", 1>>, <<"B", "C", 1>>, <<"C", "D", 1>>}),
               <<"A", "B", "C", "D">>),
      TestCase("prefer shorter", "A", "D",
               Undirected({<<"A", "C", 1>>, <<"A", "B", 1>>, <<"B", "C", 1>>, <<"C", "D", 1>>}),
               <<"A", "C", "D">>),
      TestCase("directly connected, but bad", "A", "D",
               Undirected({<<"A", "B", 1>>, <<"B", "C", 1>>, <<"C", "D", 1>>, <<"A", "D", 4>>}),
               <<"A", "B", "C", "D">>),
      TestCase("directly connected, but good", "A", "D",
               Undirected({<<"A", "B", 1>>, <<"B", "C", 1>>, <<"C", "D", 1>>, <<"A", "D", 1>>}),
               <<"A", "D">>),
      EqualCostSquare }

TestNodes(t) == {t.start} \cup {e[1] : e \in DOMAIN t.cost} \cup {e[2] : e \in DOMAIN t.cost}

TestPolicy(t, succ) ==
    MkPolicy(t.start, {t.finish}, succ, t.cost, [n \in TestNodes(t) |-> 1])

\* graph.Successors ranges over a map: any order of the neighbours.
InitTests ==
    \E t \in TestCases :
      \E succ \in AllOrders(TestNodes(t), DOMAIN t.cost) :
        InitWith(TestPolicy(t, succ))

SpecTests == InitTests /\ [][Next]_vars

\* Two calls of Search running at the same time, each on a policy instance
\* of its own.  Everything Search writes is a local of the call (lines
\* 133-149) or belongs to the policy it was given; the package has no
\* variable that Search assigns.  A step of the second call is a step of the
\* loop taken on the second call's own state.

\* Call2Step with the first call's explored states taken for its own.
Call2StepSharedExplored(o) == SearchStep([o EXCEPT !.explored = @ \cup explored])

Call2Step(o) == SearchStep(o)

Step2 ==
    /\ call2.pc \in {"loop", "scan"}
    /\ \E o1 \in {Call2Step(call2)} : call2' = o1
    /\ UNCHANGED callVars

NextConcurrent == Next \/ Step2

\* The policies the two calls run on: three of the test graphs, under any
\* order of the neighbours.
ConcurrentTests ==
    {t \in TestCases : t.name \in {"unreachable finish", "trivial", "prefer longer"}}

InitConcurrent ==
    \E t1, t2 \in ConcurrentTests :
      \E succ1 \in AllOrders(TestNodes(t1), DOMAIN t1.cost) :
        \E succ2 \in AllOrders(TestNodes(t2), DOMAIN t2.cost) :
          /\ InitCall(TestPolicy(t1, succ1))
          /\ call2 = SearchInit(TestPolicy(t2, succ2))

SpecConcurrent == InitConcurrent /\ [][NextConcurrent]_vars

\* The grid of EstimateTests "above" and "below" (lines 248-293), with the
\* heuristic each of the two installs in estimateFunc; TestEstimate takes
\* Start and Finish from the first and last letter of the expected output.
EstimateGrid ==
    Undirected({<<"A", "B", 1>>, <<"B", "C", 1>>, <<"A", "D", 1>>, <<"B", "E", 1>>,
                <<"C", "F", 1>>, <<"D", "E", 1>>, <<"E", "F", 1>>})

GridNodes == {"A", "B", "C", "D", "E", "F"}

AboveEstimate ==
    "A" :> 3 @@ "B" :> 2 @@ "C" :> 1 @@ "D" :> 4 @@ "E" :> 4 @@ "F" :> 0

BelowEstimate ==
    "A" :> 3 @@ "B" :> 4 @@ "C" :> 4 @@ "D" :> 2 @@ "E" :> 1 @@ "F" :> 0

\* estimateFunc as declared (line 76).
DefaultEstimate == [n \in GridNodes |-> 1]

EstimatePolicy(succ, est) == MkPolicy("A", {"F"}, succ, EstimateGrid, est)

\* Both grid tests under any order of the neighbours, with the graphs of
\* InitTests.
InitEstimate ==
    \/ \E succ \in AllOrders(GridNodes, DOMAIN EstimateGrid) :
          \E est \in {AboveEstimate, BelowEstimate} :
            InitWith(EstimatePolicy(succ, est))
    \/ InitTests

SpecEstimate == InitEstimate /\ [][Next]_vars

\* The Number policy of the package comment (lines 21-48): states are
\* integers, Start() is 1, Finish() holds at 10, every move costs 1 and
\* Estimate(x) is |10 - x|.  Successors() lists n + d for each d of moves, in
\* this order.  Successors() is tabulated for the integers within Window of
\* 10; a search that left the window would stop the evaluation.
Abs(x) == IF x < 0 THEN 0 - x ELSE x

NumberNodes == (10 - Window)..(10 + Window)

NumberSuccessors(moves, n) == [i \in 1..Len(moves) |-> n + moves[i]]

NumberEdges(moves) == {<<n, n + moves[i]>> : n \in NumberNodes, i \in 1..Len(moves)}

NumberPolicy(moves) ==
    MkPolicy(1, {10},
             [n \in NumberNodes |-> NumberSuccessors(moves, n)],
             [e \in NumberEdges(moves) |-> 1],
             [n \in NumberNodes \cup {e[2] : e \in NumberEdges(moves)} |-> Abs(10 - n)])

\* "counting to 10" and "subtract 7, add 5".
CountingMoves == <<0 - 1, 1>>

SevenFiveMoves == <<0 - 7, 5>>

\* The road map of ExampleSearch_graphTraversal (lines 280-303): edges as
\* listed in the map literal, with their distances.  City names are written
\* without diacritics.
RoadMap ==
    Directed({
      <<"Arad", "Zerind", 75>>, <<"Arad", "Timisoara", 118>>, <<"Arad", "Sibiu", 140>>,
      <<"Bucharest", "Pitesti", 101>>, <<"Bucharest", "Fagaras", 211>>,
      <<"Bucharest", "Urziceni", 85>>, <<"Bucharest", "Giurgiu", 90>>,
      <<"Craiova", "Drobeta", 120>>, <<"Craiova", "Ramnicu Valcea", 146>>,
      <<"Craiova", "Pitesti", 138>>,
      <<"Drobeta", "Mehadia", 75>>, <<"Drobeta", "Craiova", 120>>,
      <<"Eforie", "Harsova", 86>>,
      <<"Fagaras", "Sibiu", 99>>, <<"Fagaras", "Bucharest", 211>>,
      <<"Giurgiu", "Bucharest", 90>>,
      <<"Harsova", "Urziceni", 98>>, <<"Harsova", "Eforie", 86>>,
      <<"Iasi", "Neamt", 87>>, <<"Iasi", "Vaslui", 92>>,
      <<"Lugoj", "Timisoara", 111>>, <<"Lugoj", "Mehadia", 70>>,
      <<"Mehadia", "Lugoj", 70>>, <<"Mehadia", "Drobeta", 75>>,
      <<"Oradea", "Zerind", 71>>, <<"Oradea", "Sibiu", 151>>,
      <<"Pitesti", "Ramnicu Valcea", 97>>, <<"Pitesti", "Craiova", 138>>,
      <<"Pitesti", "Bucharest", 101>>,
      <<"Ramnicu Valcea", "Sibiu", 80>>, <<"Ramnicu Valcea", "Pitesti", 97>>,
      <<"Ramnicu Valcea", "Craiova", 146>>,
      <<"Sibiu", "Arad", 140>>, <<"Sibiu", "Oradea", 151>>, <<"Sibiu", "Fagaras", 99>>,
      <<"Sibiu", "Ramnicu Valcea", 80>>,
      <<"Timisoara", "Arad", 118>>, <<"Timisoara", "Lugoj", 111>>,
      <<"Urziceni", "Bucharest", 85>>, <<"Urziceni", "Vaslui", 142>>,
      <<"Urziceni", "Harsova", 98>>,
      <<"Vaslui", "Urziceni", 142>>, <<"Vaslui", "Iasi", 92>>,
      <<"Zerind", "Arad", 75>>, <<"Zerind", "Oradea", 71>> })

\* Graph.Estimate (lines 253-278): straight-line distances to Bucharest.
RoadEstimate ==
    "Arad" :> 366 @@ "Bucharest" :> 0 @@ "Craiova" :> 160 @@ "Drobeta" :> 242 @@
    "Eforie" :> 161 @@ "Fagaras" :> 176 @@ "Giurgiu" :> 77 @@ "Harsova" :> 151 @@
    "Iasi" :> 226 @@ "Lugoj" :> 244 @@ "Mehadia" :> 241 @@ "Neamt" :> 234 @@
    "Oradea" :> 380 @@ "Pitesti" :> 100 @@ "Ramnicu Valcea" :> 193 @@ "Sibiu" :> 253 @@
    "Timisoara" :> 329 @@ "Urziceni" :> 80 @@ "Vaslui" :> 199 @@ "Zerind" :> 374

RoadCities == DOMAIN RoadEstimate

\* Graph.Successors ranges over a map.  RoadOrders takes every order for the
\* cities in ordered and one order for each of the others.
OrderedCities == {"Arad", "Sibiu", "Ramnicu Valcea", "Fagaras", "Pitesti"}

RoadOrders(ordered) ==
    LET rest == [c \in RoadCities \ ordered |->
                    CHOOSE f \in PermSeqs(Targets(DOMAIN RoadMap, c)) : TRUE]
    IN  {[c \in RoadCities |-> IF c \in ordered THEN f[c] ELSE rest[c]] :
            f \in AllOrders(ordered, DOMAIN RoadMap)}

RoadPolicy(succ) == MkPolicy("Arad", {"Bucharest"}, succ, RoadMap, RoadEstimate)

\* The water-pouring puzzle (part_000 lines 20-112).  A State is the label of
\* the action that led to it with the contents of the two containers; the
\* label is part of the value Search uses as the map key.  The arrows of the
\* labels are written "->".
Puzzle(capFirst, capSecond, goal) ==
    [CapFirst |-> capFirst, CapSecond |-> capSecond, Goal |-> goal]

State(action, first, second) == [Action |-> action, First |-> first, Second |-> second]

PouringActions ==
    {"Both Empty", "Fill First", "Fill Second", "Empty First", "Empty Second",
     "First -> Second", "Second -> First"}

PouringStates(pz) ==
    [Action : PouringActions, First : 0..pz.CapFirst, Second : 0..pz.CapSecond]

\* State.Successors (lines 55-88).
PouringSuccessors(pz, s) ==
    << State("Fill First", pz.CapFirst, s.Second),
       State("Fill Second", s.First, pz.CapSecond),
       State("Empty First", 0, s.Second),
       State("Empty Second", s.First, 0),
       IF s.First + s.Second > pz.CapSecond
       THEN State("First -> Second", s.First - (pz.CapSecond - s.Second), pz.CapSecond)
       ELSE State("First -> Second", 0, s.First + s.Second),
       IF s.First + s.Second > pz.CapFirst
       THEN State("Second -> First", pz.CapFirst, s.Second - (pz.CapFirst - s.First))
       ELSE State("Second -> First", s.First + s.Second, 0) >>

\* State.Start, Finish, Cost and Estimate (lines 49-53), tabulated.
PouringPolicy(pz) ==
    MkPolicy(State("Both Empty", 0, 0),
             {s \in PouringStates(pz) : pz.Goal = s.First \/ pz.Goal = s.Second},
             [s \in PouringStates(pz) |-> PouringSuccessors(pz, s)],
             [e \in {<<s, PouringSuccessors(pz, s)[i]>> : s \in PouringStates(pz), i \in 1..6}
                 |-> 1],
             [s \in PouringStates(pz) |-> 1])

\* ExampleSearch_pouringPuzzle (lines 94-98): containers of 9 and 4, goal 6.
ExamplePuzzle == Puzzle(9, 4, 6)

\* The policies of the package comment and of the examples, with the test
\* graphs.
InitExamples ==
    \/ \E moves \in {CountingMoves, SevenFiveMoves} : InitWith(NumberPolicy(moves))
    \/ \E succ \in RoadOrders(OrderedCities) : InitWith(RoadPolicy(succ))
    \/ InitWith(PouringPolicy(ExamplePuzzle))
    \/ InitTests

SpecExamples == InitExamples /\ [][Next]_vars

----------------------------------------------------------------------------
(* Graph notions the properties are stated in.                             *)

Range(f) == {f[i] : i \in DOMAIN f}

NoDuplicates(f) == \A i, j \in DOMAIN f : f[i] = f[j] => i = j

Last(f) == f[Len(f)]

\* The states reachable from Start() through Successors().
RECURSIVE Closure(_, _)
Closure(pol, S) ==
    LET T == S \cup UNION {Range(PSuccessors(pol, n)) : n \in S}
    IN  IF T = S THEN S ELSE Closure(pol, T)

Reachable(pol) == Closure(pol, {PStart(pol)})

MinOf(S) == CHOOSE x \in S : \A y \in S : x <= y

\* The edges of the graph: s -> t when Successors() at s lists t.
EdgesOf(pol) == {e \in PNodes(pol) \X PNodes(pol) : e[2] \in Range(PSuccessors(pol, e[1]))}

NonNegativeCosts(pol) == \A e \in EdgesOf(pol) : PCost(pol, e[1], e[2]) >= 0

\* Minimum path costs from src, as a map on the states reachable from src
\* (k rounds of relaxing every edge; costs are non-negative).
RECURSIVE RelaxAll(_, _, _)
RelaxAll(pol, d, k) ==
    IF k = 0 THEN d
    ELSE LET via(t) == {d[e[1]] + PCost(pol, e[1], e[2]) :
                            e \in {x \in EdgesOf(pol) : x[1] \in DOMAIN d /\ x[2] = t}}
             new == (DOMAIN d) \cup {e[2] : e \in {x \in EdgesOf(pol) : x[1] \in DOMAIN d}}
             d1 == [t \in new |-> MinOf(via(t) \cup (IF t \in DOMAIN d THEN {d[t]} ELSE {}))]
         IN  RelaxAll(pol, d1, k - 1)

DistFrom(pol, src) == RelaxAll(pol, [n \in {src} |-> 0], Cardinality(PNodes(pol)))

GoalReachableFrom(pol, src) == (DOMAIN DistFrom(pol, src)) \cap pol.finish # {}

\* The minimum cost of a path from src to a final state.
MinCostToGoal(pol, src) ==
    LET d == DistFrom(pol, src) IN MinOf({d[g] : g \in (DOMAIN d) \cap pol.finish})

\* The sum of the edge costs along a path.
RECURSIVE PathCost(_, _)
PathCost(pol, f) ==
    IF Len(f) <= 1 THEN 0
    ELSE PCost(pol, f[1], f[2]) + PathCost(pol, Tail(f))

\* h(s) <= c(s, t) + h(t) on every edge.
Consistent(pol) ==
    \A e \in EdgesOf(pol) :
        PEstimate(pol, e[1]) <= PCost(pol, e[1], e[2]) + PEstimate(pol, e[2])

ZeroOnGoals(pol) == \A g \in pol.finish \cap PNodes(pol) : PEstimate(pol, g) = 0

\* h(s) never exceeds the minimum cost from s to a final state.
Admissible(pol) ==
    \A n \in PNodes(pol) :
        GoalReachableFrom(pol, n) => PEstimate(pol, n) <= MinCostToGoal(pol, n)

\* The ids held in the priority queue.
FrontierIds == {obj[q[i]].id : i \in DOMAIN q}

Count(f, x) == Cardinality({i \in DOMAIN f : f[i] = x})

\* The cost recorded in the state struct allocated for id n.
RecordedCost(n) == obj[CHOOSE h \in DOMAIN obj : obj[h].id = n].cost

\* The policy without its self-loops.
StripLoops(pol) ==
    [pol EXCEPT !.succ = [n \in DOMAIN pol.succ |-> SelectSeq(pol.succ[n], LAMBDA m : m # n)],
                !.cost = [e \in {x \in DOMAIN pol.cost : x[1] # x[2]} |-> pol.cost[e]]]

Done == pc = "done"

Success == pc = "done" /\ err = "nil"

Failure == pc = "done" /\ err = "ErrNotFound"

----------------------------------------------------------------------------
(* Policies with a consistent heuristic.                                   *)

Reverse(f) == [i \in 1..Len(f) |-> f[Len(f) + 1 - i]]

\* Successors() in one order of each state's neighbours and in the opposite
\* order.
TwoOrders(ns, E) ==
    LET one == [n \in ns |-> CHOOSE f \in PermSeqs(Targets(E, n)) : TRUE]
    IN  {one, [n \in ns |-> Reverse(one[n])]}

\* The shapes of Topologies and a star around the start with one more edge,
\* which puts three states on the frontier at once.
MonoTopologies ==
    Topologies \cup { {{"A", "B"}, {"A", "C"}, {"A", "D"}, {"B", "C"}} }

\* Undirected weighted graphs of these shapes with every cost of CostVals
\* and every estimate of EstVals that is consistent; D is final.
InitMono ==
    \E T \in MonoTopologies :
      \E w \in [T -> CostVals] :
        \E succ \in TwoOrders(OptNodes, Sym(T)) :
          \E est \in [OptNodes -> EstVals] :
            \E pol \in {MkPolicy("A", {"D"}, succ, SymCost(T, w), est)} :
              Consistent(pol) /\ InitWith(pol)

SpecMono == InitMono /\ [][Next]_vars

\* The same graphs under the tests' constant estimate, with any set of
\* states other than the start final.
InitGoals ==
    \E T \in MonoTopologies :
      \E w \in [T -> CostVals] :
        \E succ \in TwoOrders(OptNodes, Sym(T)) :
          \E finish \in SUBSET (OptNodes \ {"A"}) :
            InitWith(MkPolicy("A", finish, succ, SymCost(T, w), [n \in OptNodes |-> 1]))

SpecGoals == InitGoals /\ [][Next]_vars

----------------------------------------------------------------------------
(* The maze demo (cmd/maze): a random maze made by Kruskal's algorithm and *)
(* the policy that walks it.  Matrix indices are Go's (from 0).            *)

spaceRune == " "

wallRune == "*"

startRune == "S"

finishRune == "F"

location(i, j) == [i |-> i, j |-> j]

edge(v1, v2, w) == [v1 |-> v1, v2 |-> v2, w |-> w]

\* The disjoint sets of github.com/pietv/unionfind, as the map from each
\* element to a representative of its set.
unionfindNew == EmptyMap

MakeSet(u, x) == Put(u, x, x)

Connected(u, a, b) == u[a] = u[b]

Union(u, a, b) == [x \in DOMAIN u |-> IF u[x] = u[a] THEN u[b] ELSE u[x]]

\* heap.Push(&pq, edge{...}).  The priorityQueue is held as a heap value
\* whose structs carry the edge as id and its weight as the only key, so
\* that Less is pq[i].w < pq[j].w; priorityQueue.Swap does not use index.
pushEdge(pq, e) ==
    heapPush([q |-> pq.q, obj |-> Append(pq.obj, NewState(e, e.w, 0))], Len(pq.obj) + 1)

\* The loop over the cells (k counts them row by row): the edge to the right
\* and the edge below, each with the next random weight of ws, and a set
\* for the cell.
RECURSIVE pushEdges(_, _, _, _, _, _)
pushEdges(rows, cols, k, ws, pq, u) ==
    IF k >= rows * cols THEN [pq |-> pq, u |-> u]
    ELSE LET i == k \div cols
             j == k % cols
             pq1 == IF j < cols - 1
                    THEN pushEdge(pq, edge(location(i, j), location(i, j + 1),
                                           ws[Len(pq.obj) + 1]))
                    ELSE pq
             pq2 == IF i < rows - 1
                    THEN pushEdge(pq1, edge(location(i, j), location(i + 1, j),
                                            ws[Len(pq1.obj) + 1]))
                    ELSE pq1
         IN  pushEdges(rows, cols, k + 1, ws, pq2, MakeSet(u, location(i, j)))

\* The number of rand.Int() calls of that loop.
EdgeCount(rows, cols) == rows * (cols - 1) + (rows - 1) * cols

mazeTemplate(rows, cols) ==
    [i \in 0..(rows * 2) |->
        [j \in 0..(cols * 2) |->
            IF i % 2 = 1 /\ j % 2 = 1 THEN spaceRune ELSE wallRune]]

\* The body of the popping loop with the test of Connected left out.
breakWallAlways(u, m, e) ==
    [u |-> Union(u, e.v1, e.v2),
     m |-> IF e.v1.i = e.v2.i
           THEN [m EXCEPT ![e.v1.i * 2 + 1][e.v1.j * 2 + 2] = spaceRune]
           ELSE [m EXCEPT ![e.v1.i * 2 + 2][e.v1.j * 2 + 1] = spaceRune]]

\* The body of the popping loop for the popped edge e.
breakWall(u, m, e) ==
    IF ~Connected(u, e.v1, e.v2)
    THEN [u |-> Union(u, e.v1, e.v2),
          m |-> IF e.v1.i = e.v2.i
                THEN [m EXCEPT ![e.v1.i * 2 + 1][e.v1.j * 2 + 2] = spaceRune]
                ELSE [m EXCEPT ![e.v1.i * 2 + 2][e.v1.j * 2 + 1] = spaceRune]]
    ELSE [u |-> u, m |-> m]

RECURSIVE popEdges(_, _, _)
popEdges(pq, u, m) ==
    IF Len0(pq) = 0 THEN m
    ELSE LET r == heapPop(pq)
             b == breakWall(u, m, r.obj[r.x].id)
         IN  popEdges([q |-> r.q, obj |-> r.obj], b.u, b.m)

\* newRandomKruskal(rows, cols) with ws the values rand.Int() returns.
newRandomKruskal(rows, cols, ws) ==
    LET pushed == pushEdges(rows, cols, 0, ws, heapInit([q |-> <<>>, obj |-> <<>>]),
                            unionfindNew)
        m1 == popEdges(pushed.pq, pushed.u, mazeTemplate(rows, cols))
        start == location(rows * 2 - 1, 1)
        m2 == [m1 EXCEPT ![start.i][start.j] = startRune]
        finish == location(1, cols * 2 - 1)
        m3 == [m2 EXCEPT ![finish.i][finish.j] = finishRune]
    IN  [maze |-> m3, start |-> start, finish |-> finish, curr |-> start]

\* The flags -cost (1.0) and -estimate (1.5), counted in halves.
costFlag == 2

estimateFlag == 3

\* genManhattanEstimate, the estimate main selects unless -euclid is given.
genManhattanEstimate(multiplier, finish, neighbor) ==
    (Abs(neighbor.i - finish.i) + Abs(neighbor.j - finish.j)) * multiplier

checkLocation(m, i, j) ==
    IF i < 0 \/ j < 0 \/ i >= Cardinality(DOMAIN m) \/ j >= Cardinality(DOMAIN m[i])
    THEN <<>>
    ELSE IF m[i][j] \in {spaceRune, finishRune} THEN <<location(i, j)>> ELSE <<>>

\* maze.Successors with the cursor at c: North, South, West, East.
mazeSuccessors(m, c) ==
    checkLocation(m, c.i - 1, c.j) \o checkLocation(m, c.i + 1, c.j)
        \o checkLocation(m, c.i, c.j - 1) \o checkLocation(m, c.i, c.j + 1)

mazeLocations(m) == {location(i, j) : i \in DOMAIN m, j \in DOMAIN m[0]}

\* The methods of maze, tabulated over the positions of the matrix; the
\* matrix itself is kept with the policy.
mazePolicy(mz) ==
    [start |-> mz.start,
     finish |-> {mz.finish},
     succ |-> [c \in mazeLocations(mz.maze) |-> mazeSuccessors(mz.maze, c)],
     cost |-> [x \in UNION {{<<c, d>> : d \in Range(mazeSuccessors(mz.maze, c))} :
                              c \in mazeLocations(mz.maze)} |-> costFlag],
     est |-> [c \in mazeLocations(mz.maze) |->
                 genManhattanEstimate(estimateFlag, mz.finish, c)],
     maze |-> mz.maze]

\* Mazes of at most MaxCells cells under every assignment of weights up to
\* MaxWeight (equal weights included), and the graphs of the tests.
InitMaze ==
    \/ \E rows \in 1..MaxCells, cols \in 1..MaxCells :
         /\ rows * cols <= MaxCells
         /\ \E ws \in [1..EdgeCount(rows, cols) -> 0..MaxWeight] :
              InitWith(mazePolicy(newRandomKruskal(rows, cols, ws)))
    \/ InitTests

SpecMaze == InitMaze /\ [][Next]_vars

----------------------------------------------------------------------------
\* C3: Search returns ErrNotFound with a nil path exactly when no final state
\* is reachable from Start(); when one is reachable it returns a nil error
\* and a non-empty path; ErrNotFound is the only error it returns.
C3_NotFoundIffUnreachable ==
    Done =>
        /\ err \in {"nil", "ErrNotFound"}
        /\ (err = "ErrNotFound" /\ path = <<>>) <=> (Reachable(p) \cap p.finish = {})
        /\ (Reachable(p) \cap p.finish # {}) => (err = "nil" /\ path # <<>>)

\* The search failed after exploring two states although final states exist.
C3_Witness == Failure /\ Len(steps) = 2 /\ p.finish # {}

\* C4: on ErrNotFound the explored sequence holds every reachable state
\* exactly once and nothing else; a start state that is not final and has no
\* successors gives ErrNotFound with explored = [start].
C4_NotFoundExploresAll ==
    /\ Failure => (Range(steps) = Reachable(p) /\ NoDuplicates(steps))
    /\ (Done /\ PSuccessors(p, PStart(p)) = <<>> /\ ~PFinish(p, PStart(p)))
          => (err = "ErrNotFound" /\ steps = <<PStart(p)>>)

\* The search failed on a graph with a cycle through all three states.
C4_Witness ==
    /\ Failure
    /\ Len(steps) = 3
    /\ PStart(p) \in Range(PSuccessors(p, Last(steps)))

\* C6: when the start state is final, Search succeeds with path = [start] and
\* explored = [start], and Successors() is never called.
C6_StartIsFinal ==
    PFinish(p, PStart(p)) =>
        /\ succCalls = <<>>
        /\ Done => (err = "nil" /\ path = <<PStart(p)>> /\ steps = <<PStart(p)>>)

\* The search returned for a final start state that has successors.
C6_Witness == Done /\ PFinish(p, PStart(p)) /\ Len(PSuccessors(p, PStart(p))) = 2

\* C7: a returned path starts with Start(), ends with the final state popped
\* last (the last explored state), and each state on it was returned by
\* Successors() while the cursor was at the state before it.
C7_PathFollowsSuccessors ==
    Success =>
        /\ path # <<>>
        /\ path[1] = PStart(p)
        /\ Last(path) = Last(steps)
        /\ PFinish(p, Last(path))
        /\ \A i \in 1..(Len(path) - 1) :
              /\ path[i] \in Range(succCalls)
              /\ path[i + 1] \in Range(PSuccessors(p, path[i]))

\* A path of three states was returned.
C7_Witness == Success /\ Len(path) = 3

----------------------------------------------------------------------------
\* C1: with non-negative edge costs and a consistent heuristic that is 0 on
\* final states, the cost of a returned path is the minimum cost of any path
\* from Start() to a final state.
C1_OptimalWhenConsistent ==
    (Success /\ NonNegativeCosts(p) /\ Consistent(p) /\ ZeroOnGoals(p))
        => PathCost(p, path) = MinCostToGoal(p, PStart(p))

\* A search under a consistent heuristic returned a path of three edges that
\* is cheaper than the direct edge from the start to the final state.
C1_Witness ==
    /\ Success /\ NonNegativeCosts(p) /\ Consistent(p) /\ ZeroOnGoals(p)
    /\ Len(path) = 4
    /\ "D" \in Range(PSuccessors(p, "A"))
    /\ PathCost(p, path) < PCost(p, "A", "D")

\* C2: with non-negative edge costs and an admissible heuristic, the cost of
\* a returned path is the minimum cost of any path from Start() to a final
\* state.
C2_OptimalWhenAdmissible ==
    (Success /\ NonNegativeCosts(p) /\ Admissible(p))
        => PathCost(p, path) = MinCostToGoal(p, PStart(p))

----------------------------------------------------------------------------
\* C5: whatever the costs and estimates (negative costs and negative-cost
\* cycles included), Search eventually returns, and the loop body runs at
\* most once for each reachable state.
C5_Terminates ==
    /\ <>Done
    /\ [](NoDuplicates(steps) /\ Range(steps) \subseteq Reachable(p))

\* Search returned after going round a cycle of negative total cost.
C5_Witness ==
    /\ Done
    /\ steps = <<"A", "B", "C">>
    /\ succCalls = steps
    /\ PCost(p, "A", "B") + PCost(p, "B", "C") + PCost(p, "C", "A") < 0

----------------------------------------------------------------------------
\* C8: self-loops change nothing: Search on a policy with self-loops (of any
\* cost, at any place of the successor lists) returns, after at most one loop
\* iteration per state, the path, explored sequence and error it returns on
\* the policy without them.
C8_SelfLoopsChangeNothing ==
    /\ Len(steps) <= Cardinality(PNodes(p))
    /\ Done => Search(StripLoops(p)) = [path |-> path, steps |-> steps, err |-> err]

\* Search returned after expanding two states that list themselves, one of
\* them with a positive self-loop cost.
C8_Witness ==
    /\ Done
    /\ Len(succCalls) >= 2
    /\ \A n \in Range(succCalls) : n \in Range(PSuccessors(p, n))
    /\ \E n \in Range(succCalls) : PCost(p, n, n) > 0

----------------------------------------------------------------------------
\* C9: an explored state stays explored, is never put on the frontier again,
\* occurs exactly once in the explored sequence and keeps its predecessor
\* entry (or the absence of one), also when a later expansion reaches it by
\* a strictly cheaper route.
C9_ExploredIsFinal ==
    [][\A n \in explored :
          /\ n \in explored'
          /\ n \notin FrontierIds'
          /\ n \notin DOMAIN queuedLinks'
          /\ Count(steps', n) = 1
          /\ (n \in DOMAIN transitions) <=> (n \in DOMAIN transitions')
          /\ n \in DOMAIN transitions => transitions'[n] = transitions[n]]_vars

\* The scan has passed an explored successor that the state being expanded
\* reaches at a strictly lower cost than the one recorded for it.
C9_Witness ==
    /\ pc = "scan"
    /\ \E n \in Range(PSuccessors(p, curr)) \ Range(succs) :
          /\ n \in explored
          /\ n # curr
          /\ obj[current].cost + PCost(p, curr, n) < RecordedCost(n)

----------------------------------------------------------------------------
\* C10: a successor that is on the frontier gets its cost and predecessor
\* overwritten exactly when current.cost + Cost(succ) is strictly below its
\* recorded cost; otherwise the entry, the heap and the predecessor stay as
\* they are, so the equal-cost square of the tests returns A, D.
C10_RelaxOnlyIfCheaper ==
    /\ [][(pc = "scan" /\ succs # <<>> /\ Head(succs) \in DOMAIN queuedLinks) =>
            LET succ == Head(succs)
                queuedState == queuedLinks[succ]
                cost == obj[current].cost + PCost(p, curr, succ)
            IN  IF cost < obj[queuedState].cost
                THEN /\ obj'[queuedState].cost = cost
                     /\ transitions'[succ] = curr
                     /\ transitions[succ] # curr
                ELSE /\ obj' = obj
                     /\ q' = q
                     /\ transitions' = transitions]_vars
    /\ []((Done /\ p.cost = EqualCostSquare.cost) => (err = "nil" /\ path = <<"A", "D">>))

\* The equal-cost square returned A, D after C, which reaches D at the cost
\* already recorded for it, had been expanded.
C10_Witness ==
    /\ Done
    /\ p.cost = EqualCostSquare.cost
    /\ path = <<"A", "D">>
    /\ steps = <<"A", "B", "C", "D">>

----------------------------------------------------------------------------
\* The states found so far: the start state and every state that has been
\* given a predecessor.
Discovered == {PStart(p)} \cup DOMAIN transitions

\* C11: between the steps of the search every discovered state either has
\* exactly one entry in the priority queue or is explored, never both and
\* never neither; and during a successor scan the keys of queuedLinks are
\* exactly the states in the priority queue, each mapped to its entry.
C11_FrontierXorExplored ==
    /\ FrontierIds \cup explored = Discovered
    /\ FrontierIds \cap explored = {}
    /\ \A i, j \in DOMAIN q : obj[q[i]].id = obj[q[j]].id => i = j
    /\ pc = "scan" =>
          /\ DOMAIN queuedLinks = FrontierIds
          /\ \A n \in DOMAIN queuedLinks :
                /\ obj[queuedLinks[n]].id = n
                /\ q[obj[queuedLinks[n]].index + 1] = queuedLinks[n]

\* The scan of the second explored state has passed a successor that the
\* start state had already put on the frontier.
C11_Witness ==
    /\ pc = "scan"
    /\ Len(steps) = 2
    /\ \E n \in Range(PSuccessors(p, curr)) \ Range(succs) :
          n \in FrontierIds /\ n \in Range(PSuccessors(p, PStart(p)))

----------------------------------------------------------------------------
\* The priority of a queue entry: what Less compares.
Key(o) == o.cost + o.estimate

\* C12: every pop takes out an entry of minimum cost+estimate: the entry
\* extracted is not above any entry left in the queue, also when costs were
\* lowered in place and repaired by heap.Fix before.
C12_PopIsMinimum ==
    [][(pc = "loop" /\ q # <<>>) =>
          \A i \in DOMAIN q' : Key(obj'[current']) <= Key(obj'[q'[i]])]_vars

\* The entry just popped had its cost lowered by the state explored before
\* it, and it left behind an entry with a larger key that was pushed earlier.
C12_Witness ==
    /\ pc \in {"scan", "done"}
    /\ Len(steps) = 3
    /\ curr = Last(steps)
    /\ curr \in Range(PSuccessors(p, "A"))
    /\ transitions[curr] = steps[2]
    /\ \E i \in DOMAIN q : q[i] < current /\ Key(obj[q[i]]) > Key(obj[current])

----------------------------------------------------------------------------
----------------------------------------------------------------------------
\* Every state a call of Successors() has returned so far.
Returned == UNION {Range(PSuccessors(p, n)) : n \in Range(succCalls)}

\* C14: every state of the returned path and of the explored sequence is one
\* of the states Successors() returned during the search.
C14_ListsFromSuccessors ==
    Done => (Range(path) \cup Range(steps)) \subseteq Returned

----------------------------------------------------------------------------
SameCost(pol) ==
    \A e, f \in EdgesOf(pol) : PCost(pol, e[1], e[2]) = PCost(pol, f[1], f[2])

ConstantCost(pol) ==
    SameCost(pol) /\ \A e \in EdgesOf(pol) : PCost(pol, e[1], e[2]) > 0

ConstantEstimate(pol) ==
    \A m, n \in PNodes(pol) : PEstimate(pol, m) = PEstimate(pol, n)

\* The minimum number of moves from Start() to each reachable state.
Hops(pol) == DistFrom([pol EXCEPT !.cost = [e \in EdgesOf(pol) |-> 1]], PStart(pol))

\* C15: when every move costs the same positive amount and every state has
\* the same estimate, states are explored in non-decreasing order of their
\* minimum number of moves from the start, and a returned path has the
\* minimum number of moves to a final state.
C15_BreadthFirst ==
    (ConstantCost(p) /\ ConstantEstimate(p)) =>
        LET hops == Hops(p)
        IN  /\ \A i, j \in DOMAIN steps : i < j => hops[steps[i]] <= hops[steps[j]]
            /\ Success =>
                  Len(path) - 1 = MinOf({hops[g] : g \in (DOMAIN hops) \cap p.finish})

\* A path of two moves was returned after all four states had been
\* explored, the two states one move away before the final one.
C15_Witness ==
    /\ Success
    /\ ConstantCost(p) /\ ConstantEstimate(p)
    /\ Len(steps) = 4
    /\ Len(path) = 3
    /\ Len(PSuccessors(p, PStart(p))) = 2

----------------------------------------------------------------------------
\* C16: among queue entries of equal cost+estimate the one pushed first is
\* popped first: no entry left in the queue by a pop has the key of the
\* popped entry and was pushed before it (state structs are allocated in
\* the order they are pushed).
C16_EqualKeysFifo ==
    [][(pc = "loop" /\ q # <<>>) =>
          \A i \in DOMAIN q' :
              Key(obj'[q'[i]]) = Key(obj'[current']) => current' < q'[i]]_vars

----------------------------------------------------------------------------
\* C17: when every move costs the same amount, every popped state has the
\* smallest Estimate among the states on the frontier at that moment.
C17_GreedyBestFirst ==
    [][(SameCost(p) /\ pc = "loop" /\ q # <<>>) =>
          \A i \in DOMAIN q' : obj'[current'].estimate <= obj'[q'[i]].estimate]_vars

----------------------------------------------------------------------------
\* The policy starts at v (states of different policies are of different
\* kinds, integers and strings, and are compared as text).
StartIs(v) == ToString(PStart(p)) = ToString(v)

\* C18: for the counting policy of the package comment Search returns the
\* path 1, 2, ..., 10 and the same explored sequence.
C18_CountingToTen ==
    (Done /\ StartIs(1) /\ p = NumberPolicy(CountingMoves)) =>
        /\ err = "nil"
        /\ path = <<1, 2, 3, 4, 5, 6, 7, 8, 9, 10>>
        /\ steps = <<1, 2, 3, 4, 5, 6, 7, 8, 9, 10>>

\* The counting search returned after nine expansions, with the state below
\* the start value still on the frontier.
C18_Witness ==
    /\ Success
    /\ StartIs(1)
    /\ p = NumberPolicy(CountingMoves)
    /\ Len(succCalls) = 9
    /\ FrontierIds = {0}

\* C19: for the policy that subtracts 7 or adds 5 Search returns the path
\* and the explored sequence given in the package comment.
C19_SubtractSevenAddFive ==
    (Done /\ StartIs(1) /\ p = NumberPolicy(SevenFiveMoves)) =>
        /\ err = "nil"
        /\ path = <<1, 6, 11, 4, 9, 14, 7, 12, 5, 10>>
        /\ steps = <<1, 6, 11, 4, 9, 16, 14, 7, 12, 0 - 1, 2, 5, 10>>

\* C20: on the road map Search returns Arad, Sibiu, Ramnicu Valcea, Pitesti,
\* Bucharest whatever the order in which Successors() lists the neighbours;
\* Successors() is only ever called at cities whose orders are all taken.
C20_RoadMapPath ==
    (StartIs("Arad") /\ p.cost = RoadMap) =>
        /\ Range(succCalls) \subseteq OrderedCities
        /\ Done => /\ err = "nil"
                   /\ path = <<"Arad", "Sibiu", "Ramnicu Valcea", "Pitesti", "Bucharest">>

\* The road-map search returned after Bucharest, first reached through
\* Fagaras, had its predecessor replaced by Pitesti.
C20_Witness ==
    /\ Success
    /\ StartIs("Arad")
    /\ p.cost = RoadMap
    /\ steps = <<"Arad", "Sibiu", "Ramnicu Valcea", "Fagaras", "Pitesti", "Bucharest">>
    /\ transitions["Bucharest"] = "Pitesti"
    /\ PSuccessors(p, "Sibiu")[1] = "Fagaras"

\* C21: for the water-pouring puzzle with containers of 9 and 4 and goal 6
\* Search returns the nine states of the example's output: both empty, fill
\* first (9 0), first -> second (5 4), empty second (5 0), first -> second
\* (1 4), empty second (1 0), first -> second (0 1), fill first (9 1),
\* first -> second (6 4).
C21_PouringPath ==
    (Done /\ StartIs(State("Both Empty", 0, 0)) /\ p = PouringPolicy(ExamplePuzzle)) =>
        /\ err = "nil"
        /\ path = << State("Both Empty", 0, 0), State("Fill First", 9, 0),
                     State("First -> Second", 5, 4), State("Empty Second", 5, 0),
                     State("First -> Second", 1, 4), State("Empty Second", 1, 0),
                     State("First -> Second", 0, 1), State("Fill First", 9, 1),
                     State("First -> Second", 6, 4) >>

\* The pouring search returned with a 6 in the first container, after a
\* state with the same contents as the start was explored under another
\* label.
C21_Witness ==
    /\ Success
    /\ StartIs(State("Both Empty", 0, 0))
    /\ p = PouringPolicy(ExamplePuzzle)
    /\ curr.First = 6
    /\ State("Empty First", 0, 0) \in explored

\* The search ran on the grid of the estimate tests.
OnGrid == StartIs("A") /\ p.cost = EstimateGrid /\ p.finish = {"F"}

\* C22: on the 2x3 grid the heuristic biased to the upper row makes Search
\* explore exactly A, B, C, F and the one biased to the lower row exactly
\* A, D, E, F, whatever the order of the successors; either way fewer states
\* are explored than by Search with the constant heuristic on the same grid.
C22_HeuristicSteering ==
    (Done /\ OnGrid) =>
        /\ p.est = AboveEstimate => steps = <<"A", "B", "C", "F">>
        /\ p.est = BelowEstimate => steps = <<"A", "D", "E", "F">>
        /\ Len(steps) < Len(Search([p EXCEPT !.est = DefaultEstimate]).steps)

\* The search biased to the upper row returned with D and E left on the
\* frontier, D having been listed before B.
C22_Witness ==
    /\ Success
    /\ OnGrid
    /\ p.est = AboveEstimate
    /\ PSuccessors(p, "A")[1] = "D"
    /\ steps = <<"A", "B", "C", "F">>
    /\ FrontierIds = {"D", "E"}

\* What a call in state s has returned.
Result(s) == [path |-> s.path, steps |-> s.steps, err |-> s.err]

PoppedId(h) == IF Done /\ err = "nil" /\ h = current THEN Last(steps) ELSE obj[h].id

\* The structs that have left the priority queue.
PoppedHandles == (DOMAIN obj) \ Range(q)

\* The scan is at an explored successor, which it skips (line 184), and
\* reaches it at less than the cost recorded for it.
SkipsCheaper ==
    /\ pc = "scan" /\ succs # <<>>
    /\ Head(succs) \in explored
    /\ obj[current].cost + PCost(p, curr, Head(succs)) < RecordedCost(Head(succs))

\* C24: with non-negative costs and a consistent heuristic the cost recorded
\* for a state when it is popped is the minimum path cost from Start() to
\* it, and whenever the scan skips an explored successor, current.cost +
\* Cost(succ) is at least the cost at which that successor was explored.
\* The costs of the popped structs are compared when the call has returned:
\* nothing writes the cost of a struct that has left the queue.
C24_ClosedNeverReopened ==
    /\ (Done /\ NonNegativeCosts(p) /\ Consistent(p)) =>
          LET dist == DistFrom(p, PStart(p))
          IN  \A h \in PoppedHandles : obj[h].cost = dist[PoppedId(h)]
    /\ SkipsCheaper => ~(NonNegativeCosts(p) /\ Consistent(p))

\* Under a consistent heuristic the scan is about to skip an explored
\* successor, other than the start, that it reaches at a strictly higher
\* cost than the one it was explored with.
C24_Witness ==
    /\ NonNegativeCosts(p) /\ Consistent(p)
    /\ pc = "scan" /\ succs # <<>>
    /\ Head(succs) \in explored
    /\ Head(succs) # PStart(p)
    /\ obj[current].cost + PCost(p, curr, Head(succs)) > RecordedCost(Head(succs))
    /\ \E n \in DOMAIN p.est : PEstimate(p, n) > 0

\* The struct popped for the i-th explored state.
PoppedAt(i) == obj[CHOOSE h \in PoppedHandles : PoppedId(h) = steps[i]]

\* C25: with non-negative costs and a consistent heuristic the values of
\* cost + estimate of the explored states, in the order they were explored,
\* never decrease; with a constant Estimate the states are explored in
\* non-decreasing order of path cost.
C25_MonotonicKeys ==
    (NonNegativeCosts(p) /\ Consistent(p)) =>
        \A i, j \in DOMAIN steps :
            i < j => /\ Key(PoppedAt(i)) <= Key(PoppedAt(j))
                     /\ ConstantEstimate(p) => PoppedAt(i).cost <= PoppedAt(j).cost

\* Four states were explored under a constant estimate with costs that
\* differ between edges, the last at a higher path cost than the second,
\* and one of them after its cost was lowered on the frontier.
C25_Witness ==
    /\ NonNegativeCosts(p) /\ Consistent(p) /\ ConstantEstimate(p)
    /\ ~SameCost(p)
    /\ Len(steps) = 4
    /\ PoppedAt(2).cost < PoppedAt(4).cost
    /\ \E n \in explored \cap DOMAIN transitions : transitions[n] # PStart(p)

\* Move() was called with Start() and then once with each popped state, in
\* the order of explored; the cursor is where the last call put it;
\* Successors() ran at the popped states, one call each, in their order;
\* the scan runs, and Finish() returned false, at the state popped last, and
\* Finish() returned true at the last state of a successful search.
CursorAtPopped ==
    /\ moveCalls = <<PStart(p)>> \o steps
    /\ curr = Last(moveCalls)
    /\ Len(succCalls) <= Len(steps)
    /\ succCalls = SubSeq(steps, 1, Len(succCalls))
    /\ pc = "scan" => /\ Len(succCalls) = Len(steps)
                      /\ obj[current].id = curr
                      /\ ~PFinish(p, Last(steps))
    /\ Success => /\ Len(succCalls) = Len(steps) - 1
                  /\ PFinish(p, Last(steps))

\* A step of the scan writes a cost only into the struct of the successor
\* it looks at, and the cost it writes is current.cost plus the cost of the
\* edge from the state popped last to that successor.
CostFromExpanded ==
    (pc = "scan" /\ succs # <<>>) =>
        \A h \in DOMAIN obj' :
            (h \notin DOMAIN obj \/ obj'[h].cost # obj[h].cost) =>
                /\ obj'[h].id = Head(succs)
                /\ obj'[h].cost = obj[current].cost + PCost(p, Last(steps), Head(succs))

\* C26: Search calls Move(Start()) before the loop and then Move(s) once
\* for each popped state s, in explored order; Finish(), Successors() and
\* Cost() are called with the cursor at the state popped last, so the cost
\* added for a successor is that of the edge from the state being expanded.
C26_CursorProtocol == []CursorAtPopped /\ [][CostFromExpanded]_vars

\* The scan of a state other than the start has put a successor on the
\* frontier at current.cost plus a positive edge cost.
C26_Witness ==
    /\ pc = "scan"
    /\ Len(moveCalls) = 3
    /\ curr # PStart(p)
    /\ \E n \in DOMAIN queuedLinks :
          /\ transitions[n] = curr
          /\ PCost(p, curr, n) > 0
          /\ PCost(p, curr, n) # PCost(p, PStart(p), n)
          /\ obj[queuedLinks[n]].cost = obj[current].cost + PCost(p, curr, n)

\* C27: Search stops at the first final state it pops: a state of explored
\* at which Finish() holds is the last one, of a search that has returned
\* with success (so none was popped after it); a successful search ends
\* at such a state; and Successors() is never called with the cursor at a
\* final state.
C27_StopsAtFirstGoal ==
    /\ \A i \in DOMAIN steps : PFinish(p, steps[i]) => (Success /\ i = Len(steps))
    /\ Success => PFinish(p, Last(steps))
    /\ \A i \in DOMAIN succCalls : ~PFinish(p, succCalls[i])

\* The search returned at one of two final states while the other one was
\* still on the frontier, after Successors() had been called.
C27_Witness ==
    /\ Success
    /\ p.finish = {"B", "C"}
    /\ Last(steps) = "C"
    /\ "B" \in FrontierIds
    /\ Len(succCalls) = 1

\* The struct of a discovered state: the one queuedLinks holds while the
\* state is on the frontier, the one popped for it afterwards.
StructOf(n) ==
    IF n \in DOMAIN queuedLinks THEN obj[queuedLinks[n]]
    ELSE obj[CHOOSE h \in PoppedHandles : PoppedId(h) = n]

\* C28: at every point the cost of each state that has a predecessor entry
\* is the cost of its predecessor plus the cost of the edge between them,
\* and on success the cost of the popped final state is the sum of the edge
\* costs along the returned path.
C28_CostFollowsPredecessor ==
    /\ \A n \in DOMAIN transitions :
          StructOf(n).cost = StructOf(transitions[n]).cost + PCost(p, transitions[n], n)
    /\ Success => obj[current].cost = PathCost(p, path)

\* The search returned a path of four states whose last state, a neighbour
\* of the start, had its cost lowered and its predecessor replaced while on
\* the frontier.
C28_Witness ==
    /\ Success
    /\ Len(path) = 4
    /\ obj[current].cost < PCost(p, PStart(p), Last(path))
    /\ Last(path) \in Range(PSuccessors(p, PStart(p)))

\* The position of an explored state in explored.
ExploredAt(n) == CHOOSE i \in DOMAIN steps : steps[i] = n

\* C29: the start state never has a predecessor entry and every other state
\* on the frontier or explored has one; the predecessor of a state is
\* explored, and explored before the state itself; so the walk back from the
\* final state ends at the start and the returned path has no state twice.
C29_PredecessorsRootedAtStart ==
    /\ PStart(p) \notin DOMAIN transitions
    /\ DOMAIN transitions = (FrontierIds \cup explored) \ {PStart(p)}
    /\ \A n \in DOMAIN transitions :
          /\ transitions[n] \in explored
          /\ n \in explored => ExploredAt(transitions[n]) < ExploredAt(n)
    /\ Success => /\ path[1] = PStart(p)
                  /\ NoDuplicates(path)

\* The search returned a path of four states after a state had its
\* predecessor replaced, on a graph where every state leads back to the one
\* before it.
C29_Witness ==
    /\ Success
    /\ Len(path) = 4
    /\ \E n \in DOMAIN transitions :
          /\ transitions[n] # PStart(p)
          /\ n \in Range(PSuccessors(p, PStart(p)))
    /\ \A n \in DOMAIN transitions : n \in Range(PSuccessors(p, transitions[n]))
                                        /\ transitions[n] \in Range(PSuccessors(p, n))

\* One struct, hence one evaluation of Estimate (lines 133 and 204), for
\* the start and for each state that has been put on the frontier, holding
\* the estimate of its state.
OneEstimatePerState ==
    /\ \A g, h \in DOMAIN obj : PoppedId(g) = PoppedId(h) => g = h
    /\ {PoppedId(h) : h \in DOMAIN obj} = Discovered
    /\ \A h \in DOMAIN obj : obj[h].estimate = PEstimate(p, PoppedId(h))

\* A step of the scan leaves the id and the estimate of every struct as
\* they are, and allocates at most one struct, for the successor it looks at
\* when that is neither explored nor on the frontier.
ScanKeepsEstimates ==
    (pc = "scan" /\ succs # <<>>) =>
        /\ \A h \in DOMAIN obj :
              /\ h \in DOMAIN obj'
              /\ obj'[h].id = obj[h].id
              /\ obj'[h].estimate = obj[h].estimate
        /\ \A h \in (DOMAIN obj') \ DOMAIN obj :
              /\ Head(succs) \notin Discovered
              /\ obj'[h].id = Head(succs)
              /\ Len(obj') = Len(obj) + 1

\* C30: Estimate is evaluated once for the start state and once for each
\* other state, when the state is first put on the frontier; lowering the
\* cost of a queued state changes its cost and its place in the heap and
\* leaves its estimate and its state as they are.
C30_EstimateOncePerState == []OneEstimatePerState /\ [][ScanKeepsEstimates]_vars

\* A queued state with a positive estimate had its cost lowered and was
\* explored.
C30_Witness ==
    /\ pc = "scan"
    /\ PEstimate(p, curr) > 0
    /\ curr \in Range(PSuccessors(p, PStart(p)))
    /\ transitions[curr] # PStart(p)
    /\ obj[current].cost < PCost(p, PStart(p), curr)

----------------------------------------------------------------------------
(* The generated maze as a graph of cells.                                 *)

IsMaze(pol) == "maze" \in DOMAIN pol

Rows(m) == (Cardinality(DOMAIN m) - 1) \div 2

Cols(m) == (Cardinality(DOMAIN m[0]) - 1) \div 2

\* The cells: the positions with both indices odd.
Cells(m) == {c \in mazeLocations(m) : c.i % 2 = 1 /\ c.j % 2 = 1}

\* The walls between two cells that are not walls any more.
BrokenWalls(m) ==
    {c \in mazeLocations(m) : c.i % 2 # c.j % 2 /\ m[c.i][c.j] # wallRune}

\* The positions a walk that starts in S can come to without crossing a wall.
RECURSIVE Flood(_, _)
Flood(m, S) ==
    LET T == S \cup {c \in mazeLocations(m) :
                       /\ m[c.i][c.j] # wallRune
                       /\ \E d \in S : Abs(c.i - d.i) + Abs(c.j - d.j) = 1}
    IN  IF T = S THEN S ELSE Flood(m, T)

\* C31: for every rows >= 1 and cols >= 1 and every assignment of random
\* edge weights the maze built by newRandomKruskal is a spanning tree of the
\* cell grid: exactly rows*cols - 1 walls are broken and all cells are
\* connected; so the finish cell is reachable from the start cell and Search
\* on the generated maze never returns ErrNotFound.
C31_KruskalSpanningTree ==
    (IsMaze(p) /\ Done) =>
        /\ Cardinality(BrokenWalls(p.maze)) = Rows(p.maze) * Cols(p.maze) - 1
        /\ Cells(p.maze) \subseteq Flood(p.maze, {location(1, 1)})
        /\ p.finish \subseteq Reachable(p)
        /\ err = "nil"

\* Search has returned on a maze of two rows and three columns whose only
\* way from the start to the finish goes through all six cells.
C31_Witness ==
    /\ IsMaze(p)
    /\ Rows(p.maze) = 2
    /\ Cols(p.maze) = 3
    /\ Done
    /\ err = "nil"
    /\ Len(path) = 11

\* C32: heap position tracking.  After every heap operation of Search (Init,
\* Push, Pop, Fix) every entry e still in the priority queue satisfies
\* pq[e.index] == e, and so does the entry queuedLinks holds for a state:
\* heap.Fix is applied at the true position of the entry whose cost was
\* decreased.
C32_IndexTracksPosition ==
    /\ \A n \in DOMAIN q : obj[q[n]].index = n - 1
    /\ \A id \in DOMAIN queuedLinks :
         /\ obj[queuedLinks[id]].index < Len(q)
         /\ q[obj[queuedLinks[id]].index + 1] = queuedLinks[id]

\* The scan of B has lowered the cost of C, which shared its key with D and,
\* Successors() of A being in one of these orders, sat behind it since B was
\* popped: heap.Fix has moved C to the front, and both index fields have
\* followed.
C32_Witness ==
    /\ pc = "scan"
    /\ steps = <<"A", "B">>
    /\ p.succ["A"] \in {<<"B", "C", "D">>, <<"D", "C", "B">>, <<"C", "B", "D">>}
    /\ PCost(p, "A", "C") = PCost(p, "A", "D")
    /\ PEstimate(p, "C") = PEstimate(p, "D")
    /\ {"C", "D"} \subseteq DOMAIN queuedLinks
    /\ transitions["C"] = "B"
    /\ q = <<queuedLinks["C"], queuedLinks["D"]>>
    /\ obj[queuedLinks["C"]].index = 0
    /\ obj[queuedLinks["D"]].index = 1

====
